---------------------------- MODULE Spec2Model ----------------------------
(***************************************************************************)
(* A model of the DealBite API (src/main.py): the text-to-deal extraction  *)
(* pipeline, the SQLite persistence of deals, and the value scoring and    *)
(* ranking.                                                                *)
(*                                                                         *)
(* A Python str is a sequence of one-character strings, so that regular    *)
(* expressions, strip, split and slicing are computed character by         *)
(* character as the code computes them.  Money is counted in cents.        *)
(***************************************************************************)
EXTENDS Integers, Sequences, FiniteSets, TLC

\* An Optional[...] value: None, or Some(x) holding x.
None == <<>>

Some(x) == <<x>>

Get(o) == o[1]

(***************************************************************************)
(* Characters                                                              *)
(***************************************************************************)
Whitespace == {" ", "\t", "\n"}

Digits == {"0", "1", "2", "3", "4", "5", "6", "7", "8", "9"}

UpperCase == {"A", "B", "C", "D", "E", "F", "G", "H", "I", "J", "K", "L", "M",
              "N", "O", "P", "Q", "R", "S", "T", "U", "V", "W", "X", "Y", "Z"}

LowerCase == {"a", "b", "c", "d", "e", "f", "g", "h", "i", "j", "k", "l", "m",
              "n", "o", "p", "q", "r", "s", "t", "u", "v", "w", "x", "y", "z"}

\* \w of Python's re module, on the characters the model uses.
WordChars == UpperCase \cup LowerCase \cup Digits \cup {"_"}

ToLower == [c \in UpperCase |->
    CASE c = "A" -> "a" [] c = "B" -> "b" [] c = "C" -> "c" [] c = "D" -> "d"
      [] c = "E" -> "e" [] c = "F" -> "f" [] c = "G" -> "g" [] c = "H" -> "h"
      [] c = "I" -> "i" [] c = "J" -> "j" [] c = "K" -> "k" [] c = "L" -> "l"
      [] c = "M" -> "m" [] c = "N" -> "n" [] c = "O" -> "o" [] c = "P" -> "p"
      [] c = "Q" -> "q" [] c = "R" -> "r" [] c = "S" -> "s" [] c = "T" -> "t"
      [] c = "U" -> "u" [] c = "V" -> "v" [] c = "W" -> "w" [] c = "X" -> "x"
      [] c = "Y" -> "y" [] c = "Z" -> "z"]

\* str.lower() on one character.
LowerChar(c) == IF c \in UpperCase THEN ToLower[c] ELSE c

\* str.lower()
Lower(s) == [i \in 1..Len(s) |-> LowerChar(s[i])]

DigitValue == [c \in Digits |->
    CASE c = "0" -> 0 [] c = "1" -> 1 [] c = "2" -> 2 [] c = "3" -> 3
      [] c = "4" -> 4 [] c = "5" -> 5 [] c = "6" -> 6 [] c = "7" -> 7
      [] c = "8" -> 8 [] c = "9" -> 9]

(***************************************************************************)
(* str and re primitives                                                   *)
(***************************************************************************)
\* s[i-1:] of Python: the characters of s from position i on.
From(s, i) == SubSeq(s, i, Len(s))

\* pat occurs in s at position i (case-sensitive).
MatchAt(pat, s, i) ==
    /\ i >= 1
    /\ i + Len(pat) - 1 <= Len(s)
    /\ \A k \in 1..Len(pat) : s[i + k - 1] = pat[k]

\* pat occurs in s at position i under re.I (pat is given in lower case).
MatchAtI(pat, s, i) ==
    /\ i >= 1
    /\ i + Len(pat) - 1 <= Len(s)
    /\ \A k \in 1..Len(pat) : LowerChar(s[i + k - 1]) = pat[k]

\* `pat in s`
Contains(pat, s) == \E i \in 1..Len(s) : MatchAt(pat, s, i)

\* The first position >= i of s that holds no character of chars; Len(s) + 1
\* when there is none.
SkipLeft(s, chars, i) ==
    CHOOSE j \in i..(Len(s) + 1) :
        /\ j = Len(s) + 1 \/ s[j] \notin chars
        /\ \A k \in i..(j - 1) : s[k] \in chars

\* The last position of s that holds no character of chars; 0 when there is
\* none.
SkipRight(s, chars) ==
    CHOOSE j \in 0..Len(s) :
        /\ j = 0 \/ s[j] \notin chars
        /\ \A k \in (j + 1)..Len(s) : s[k] \in chars

\* The end of \s* matched from position i of s.
SkipWhitespace(s, i) == SkipLeft(s, Whitespace, i)

\* str.strip(chars)
StripChars(s, chars) == SubSeq(s, SkipLeft(s, chars, 1), SkipRight(s, chars))

\* str.rstrip(chars)
RStripChars(s, chars) == SubSeq(s, 1, SkipRight(s, chars))

\* str.strip()
Strip(s) == StripChars(s, Whitespace)

\* " ".join(s.split()): the characters of the words of s, and one space for
\* each run of whitespace between two words.
JoinWords(s) ==
    LET last == SkipRight(s, Whitespace)
        Keep(i) == \/ s[i] \notin Whitespace
                   \/ i > 1 /\ i < last /\ s[i - 1] \notin Whitespace
        kept == SelectSeq([i \in 1..Len(s) |-> i], Keep)
    IN  [k \in 1..Len(kept) |->
            IF s[kept[k]] \in Whitespace THEN " " ELSE s[kept[k]]]

normalize(s) == Strip(JoinWords(s))

(***************************************************************************)
(* clean_wendys_title                                                      *)
(***************************************************************************)
OrderNow == <<"o", "r", "d", "e", "r", " ", "n", "o", "w">>

CoverAllCravings == <<"c", "o", "v", "e", "r", " ", "a", "l", "l", " ", "c", "r", "a", "v", "i", "n", "g", "s">>

ValuePricePoints == <<"v", "a", "l", "u", "e", " ", "p", "r", "i", "c", "e", " ", "p", "o", "i", "n", "t", "s">>

Dollar4 == <<"$", "4">>

Dollar6 == <<"$", "6">>

Dollar8 == <<"$", "8">>

BiggieTitle == <<"B", "i", "g", "g", "i", "e", " ", "D", "e", "a", "l", "s", " ", "p", "r", "i", "c", "e", " ", "p", "o", "i", "n", "t", "s", ":", " ", "$", "4", " ", "B", "i", "g", "g", "i", "e", " ", "B", "i", "t", "e", "s", ",", " ", "$", "6", " ", "B", "i", "g", "g", "i", "e", " ", "B", "a", "g", ",", " ", "$", "8", " ", "B", "i", "g", "g", "i", "e", " ", "B", "u", "n", "d", "l", "e">>

\* The alternatives of the boilerplate pattern, in the pattern's order.
Markers == << <<"W", "i", "t", "h", "i", "n">>, <<"C", "h", "o", "i", "c", "e", " ", "o", "f">>, <<"i", "n", "c", "l", "u", "d", "e", "s">>, <<"c", "u", "s", "t", "o", "m", "e", "r", "s">>,
              <<"a", "v", "a", "i", "l", "a", "b", "l", "e">>, <<"E", "a", "c", "h">> >>

TitlePunct == {" ", "-", ":", ";", ",", "."}

MinAfterQuestion == 18

MaxTitleLen == 90

\* re.sub(r"^(Order Now\s*)+", "", t, flags=re.I)
RECURSIVE StripOrderNow(_)
StripOrderNow(t) ==
    IF MatchAtI(OrderNow, t, 1)
    THEN StripOrderNow(From(t, SkipWhitespace(t, Len(OrderNow) + 1)))
    ELSE t

\* The first position of t where pat matches under re.I; 0 when there is
\* none.
FindI(pat, t) ==
    CHOOSE j \in 0..Len(t) :
        /\ j = 0 \/ MatchAtI(pat, t, j)
        /\ \A k \in 1..Len(t) : MatchAtI(pat, t, k) => (j # 0 /\ j <= k)

\* Line 61 with a pattern that lacks the \s*: the whitespace after a match
\* stays in the text.
RECURSIVE StripTaglineOnly(_)
StripTaglineOnly(t) ==
    LET m == FindI(CoverAllCravings, t)
    IN  IF m = 0 THEN t
        ELSE SubSeq(t, 1, m - 1) \o StripTaglineOnly(From(t, m + Len(CoverAllCravings)))

\* re.sub(r"Cover All Cravings\s*", "", t, flags=re.I): the matches are
\* found left to right and dropped, each with the whitespace after it.
RECURSIVE StripTagline(_)
StripTagline(t) ==
    LET m == FindI(CoverAllCravings, t)
    IN  IF m = 0 THEN t
        ELSE SubSeq(t, 1, m - 1)
             \o StripTagline(From(t, SkipWhitespace(t, m + Len(CoverAllCravings))))

\* The position of the first "?" of t; 0 when there is none.
FindQuestion(t) ==
    CHOOSE j \in 0..Len(t) :
        /\ j = 0 \/ t[j] = "?"
        /\ \A k \in 1..Len(t) : t[k] = "?" => (j # 0 /\ j <= k)

\* t.split("?", 1)[1].strip()
AfterQuestion(t) == Strip(From(t, FindQuestion(t) + 1))

\* Lines 64-67: the headline after the first question mark replaces the text
\* when it is at least 18 characters long.
TakeHeadline(t) ==
    IF FindQuestion(t) # 0 /\ Len(AfterQuestion(t)) >= MinAfterQuestion
    THEN AfterQuestion(t)
    ELSE t

\* Line 70 with the three prices wanted in the order of the fixed title
\* ($4, then $6, then $8).
IsBiggieLineInOrder(t) ==
    \/ Contains(ValuePricePoints, Lower(t))
    \/ \E i, j, k \in 1..Len(t) :
           /\ i < j /\ j < k
           /\ MatchAt(Dollar4, t, i) /\ MatchAt(Dollar6, t, j) /\ MatchAt(Dollar8, t, k)

\* Line 70: the biggie deal price-point line.
IsBiggieLine(t) ==
    \/ Contains(ValuePricePoints, Lower(t))
    \/ (Contains(Dollar4, t) /\ Contains(Dollar6, t) /\ Contains(Dollar8, t))

\* \b at the gap before position i of t.
WordBoundary(t, i) ==
    (i > 1 /\ t[i - 1] \in WordChars) # (i <= Len(t) /\ t[i] \in WordChars)

\* \b(?:Within|...|Each)\b matches at position i (the pattern has no re.I).
MarkerAt(t, i) ==
    \E k \in 1..Len(Markers) :
        /\ MatchAt(Markers[k], t, i)
        /\ WordBoundary(t, i)
        /\ WordBoundary(t, i + Len(Markers[k]))

\* The position of the first match of the boilerplate pattern; Len(t) + 1
\* when there is none.
FindMarker(t) ==
    CHOOSE j \in 1..(Len(t) + 1) :
        /\ j = Len(t) + 1 \/ MarkerAt(t, j)
        /\ \A k \in 1..(j - 1) : ~MarkerAt(t, k)

\* re.split(pattern, t, maxsplit=1)[0].strip()
BeforeMarker(t) == Strip(SubSeq(t, 1, FindMarker(t) - 1))

\* Lines 76-77
Truncate(t) ==
    IF Len(t) > MaxTitleLen
    THEN RStripChars(SubSeq(t, 1, MaxTitleLen), TitlePunct)
    ELSE t

\* The text the special case of line 70 looks at.
Headline(text) == TakeHeadline(StripTagline(StripOrderNow(normalize(text))))

\* Lines 74-78: the title of a headline that is no biggie line.
TrimTitle(t) == Truncate(StripChars(BeforeMarker(t), TitlePunct))

clean_wendys_title(text) ==
    LET t == Headline(text)
    IN  IF IsBiggieLine(t) THEN BiggieTitle ELSE TrimTitle(t)

(***************************************************************************)
(* money_tokens, pick_price, extract_price_phrases                         *)
(***************************************************************************)
\* \$\d+(?:\.\d{1,2})? matched at position i of s: the position after the
\* match, 0 when the pattern does not match there.  \d+ and the optional
\* fraction are greedy.
TokenEnd(s, i) ==
    IF ~(i >= 1 /\ i + 1 <= Len(s) /\ s[i] = "$" /\ s[i + 1] \in Digits) THEN 0
    ELSE LET e == SkipLeft(s, Digits, i + 1)
         IN  IF e + 1 <= Len(s) /\ s[e] = "." /\ s[e + 1] \in Digits
             THEN IF e + 2 <= Len(s) /\ s[e + 2] \in Digits THEN e + 3 ELSE e + 2
             ELSE e

\* The first position >= i of s where a price token starts; 0 when there is
\* none.
FindToken(s, i) ==
    CHOOSE j \in {0} \cup i..Len(s) :
        /\ j = 0 \/ TokenEnd(s, j) # 0
        /\ \A k \in i..Len(s) : TokenEnd(s, k) # 0 => (j # 0 /\ j <= k)

\* re.findall(r"\$\d+(?:\.\d{1,2})?", s)
RECURSIVE money_tokens(_)
money_tokens(s) ==
    LET j == FindToken(s, 1)
    IN  IF j = 0 THEN <<>>
        ELSE <<SubSeq(s, j, TokenEnd(s, j) - 1)>> \o money_tokens(From(s, TokenEnd(s, j)))

\* The number a run of digits denotes.
RECURSIVE DigitsValue(_)
DigitsValue(ds) ==
    IF ds = <<>> THEN 0
    ELSE 10 * DigitsValue(SubSeq(ds, 1, Len(ds) - 1)) + DigitValue[ds[Len(ds)]]

\* float(t.replace("$", "")), in cents; None when float() raises.  Of the
\* tokens the model holds, float() takes those of the form \d+(\.\d{1,2})?.
ParsePrice(tok) ==
    LET t == SelectSeq(tok, LAMBDA c : c # "$")
        e == SkipLeft(t, Digits, 1)
        frac == SubSeq(t, e + 1, Len(t))
    IN  IF e = 1 THEN None
        ELSE IF e = Len(t) + 1 THEN Some(100 * DigitsValue(t))
        ELSE IF t[e] = "." /\ Len(frac) \in {1, 2} /\ \A k \in 1..Len(frac) : frac[k] \in Digits
             THEN Some(100 * DigitsValue(SubSeq(t, 1, e - 1))
                       + (IF Len(frac) = 1 THEN 10 * DigitsValue(frac) ELSE DigitsValue(frac)))
        ELSE None

\* The numbers the tokens parse to (lines 37-42 and 98-103).
ParsedPrices(tokens) ==
    { Get(ParsePrice(tokens[k])) : k \in { h \in 1..Len(tokens) : ParsePrice(tokens[h]) # None } }

SetMin(S) == CHOOSE x \in S : \A y \in S : x <= y

SetMax(S) == CHOOSE x \in S : \A y \in S : x >= y

pick_price(tokens) ==
    IF ParsedPrices(tokens) = {} THEN None ELSE Some(SetMin(ParsedPrices(tokens)))

MinPhraseLen == 20

MaxPhraseLen == 220

\* The first position >= i of s that holds a "."; Len(s) + 1 when none does.
FindDot(s, i) == SkipLeft(s, { s[k] : k \in 1..Len(s) } \ {"."}, i)

\* re.findall(r"[^.]*\$\d+(?:\.\d{1,2})?[^.]*", text) from position i on.
\* The leading [^.]* is greedy and cannot cross a ".", so a match at i ends its
\* leading run at the last price token that starts before the next "."; with
\* no such token nothing matches up to and including that ".".
RECURSIVE PhraseMatches(_, _)
PhraseMatches(s, i) ==
    IF i > Len(s) THEN <<>>
    ELSE LET dot == FindDot(s, i)
             starts == { j \in i..(dot - 1) : TokenEnd(s, j) # 0 }
         IN  IF starts = {} THEN PhraseMatches(s, dot + 1)
             ELSE LET e == FindDot(s, TokenEnd(s, SetMax(starts)))
                  IN  <<SubSeq(s, i, e - 1)>> \o PhraseMatches(s, e)

\* list(dict.fromkeys(xs)): the first occurrence of each element, in order.
Dedupe(xs) ==
    LET first == SelectSeq([k \in 1..Len(xs) |-> k],
                           LAMBDA k : \A h \in 1..(k - 1) : xs[h] # xs[k])
    IN  [k \in 1..Len(first) |-> xs[first[k]]]

extract_price_phrases(text) ==
    LET matches == PhraseMatches(text, 1)
        normal == [k \in 1..Len(matches) |-> normalize(matches[k])]
    IN  Dedupe(SelectSeq(normal,
                         LAMBDA m : MinPhraseLen <= Len(m) /\ Len(m) <= MaxPhraseLen))

(***************************************************************************)
(* estimate_savings_from_prices, compute_value_score                       *)
(***************************************************************************)
\* Lines 98-110, in cents.  all_prices may be None (`all_prices or []`).
estimate_savings_from_prices(starting_price, all_prices) ==
    LET nums == ParsedPrices(IF all_prices = None THEN <<>> ELSE all_prices)
    IN  IF Cardinality(nums) >= 2 THEN Some(SetMax(nums) - SetMin(nums)) ELSE None

MissingPrice == 99900

MaxBoost == 300

MaxScore == 1000

\* round(x, 2) of the fraction num / den of hundredths (den > 0): to the
\* nearest hundredth, a tie to the even one.
RoundHalfEven(num, den) ==
    LET q == num \div den
        r == num % den
    IN  IF 2 * r > den \/ (2 * r = den /\ q % 2 = 1) THEN q + 1 ELSE q

\* Lines 120-134 with the boost of line 129 taken off the base instead of
\* added to it.
compute_value_score_penalty(starting_price, estimated_savings) ==
    LET price == IF starting_price # None /\ Get(starting_price) >= 0
                 THEN Get(starting_price) ELSE MissingPrice
        den   == 500 + price
        boost == IF estimated_savings # None
                 THEN (IF Get(estimated_savings) < MaxBoost
                       THEN Get(estimated_savings) ELSE MaxBoost)
                 ELSE 0
        num   == 500000 - boost * den
    IN  IF num < 0 THEN 0
        ELSE IF num > MaxScore * den THEN MaxScore
        ELSE RoundHalfEven(num, den)

\* Lines 120-134.  Prices and savings are in cents, the score in hundredths:
\* 100 * 10 / (1 + price / 5) = 500000 / (500 + cents).
compute_value_score(starting_price, estimated_savings) ==
    LET price == IF starting_price # None /\ Get(starting_price) >= 0
                 THEN Get(starting_price) ELSE MissingPrice
        den   == 500 + price
        boost == IF estimated_savings # None
                 THEN (IF Get(estimated_savings) < MaxBoost
                       THEN Get(estimated_savings) ELSE MaxBoost)
                 ELSE 0
        num   == 500000 + boost * den
    IN  IF num < 0 THEN 0
        ELSE IF num > MaxScore * den THEN MaxScore
        ELSE RoundHalfEven(num, den)

(***************************************************************************)
(* refresh_wendys_scrape                                                   *)
(***************************************************************************)
Wendys == <<"W", "e", "n", "d", "y", "'", "s">>

Cleveland == "cleveland-oh"

MealDealsUrl == "https://www.wendys.com/mealdeals"

\* A Python value handed to json.dumps as all_prices: a list of str, None,
\* or a value json cannot serialise (a set).
PyList(items) == [type |-> "list", items |-> items]

PyNone == [type |-> "NoneType", items |-> <<>>]

PySet(items) == [type |-> "set", items |-> items]

\* Lines 260-273: the deal of each phrase whose title is not empty; text is
\* get_text(" ") of the page.
ScrapedDeals(text, market) ==
    LET phrases == extract_price_phrases(normalize(text))
        titled == SelectSeq(phrases, LAMBDA ph : clean_wendys_title(ph) # <<>>)
    IN  [k \in 1..Len(titled) |->
            [restaurant     |-> Wendys,
             market         |-> market,
             title          |-> clean_wendys_title(titled[k]),
             starting_price |-> pick_price(money_tokens(titled[k])),
             all_prices     |-> PyList(money_tokens(titled[k])),
             source_url     |-> Some(MealDealsUrl)]]

\* Lines 275-283: the first deal of each (title, prices).
DedupeDeals(deals) ==
    LET key(d) == <<d.title, d.all_prices.items>>
        first == SelectSeq([k \in 1..Len(deals) |-> k],
                           LAMBDA k : \A h \in 1..(k - 1) : key(deals[h]) # key(deals[k]))
    IN  [k \in 1..Len(first) |-> deals[first[k]]]

refresh_wendys_scrape(text, market) == DedupeDeals(ScrapedDeals(text, market))

\* Lines 254-255 without the raise_for_status() of line 255: only a missing
\* response raises.
FetchRaisesNoStatusCheck(response) == response.status = 0

\* Lines 254-255: requests.get raises when there is no response (status 0
\* here), raise_for_status on a 4xx or 5xx status.
FetchRaises(response) ==
    \/ response.status = 0
    \/ (400 <= response.status /\ response.status < 600)

(***************************************************************************)
(* The deals table                                                         *)
(***************************************************************************)
\* json.dumps of a list of str (no character of the model's tokens needs an
\* escape), or of None.
RECURSIVE DumpItems(_)
DumpItems(items) ==
    IF items = <<>> THEN <<>>
    ELSE <<"\"">> \o items[1] \o <<"\"">>
         \o (IF Len(items) > 1 THEN <<",", " ">> ELSE <<>>)
         \o DumpItems(Tail(items))

json_dumps(v) ==
    IF v.type = "NoneType" THEN <<"n", "u", "l", "l">>
    ELSE <<"[">> \o DumpItems(v.items) \o <<"]">>

\* json.dumps raises TypeError.
NotSerialisable(v) == v.type \notin {"list", "NoneType"}

\* The first position >= i of text that holds a double quote; 0 when none.
FindQuote(text, i) ==
    LET j == SkipLeft(text, { text[k] : k \in 1..Len(text) } \ {"\""}, i)
    IN  IF j > Len(text) THEN 0 ELSE j

\* The strings of a JSON array of strings, from position i on.
RECURSIVE LoadItems(_, _)
LoadItems(text, i) ==
    LET open == FindQuote(text, i)
        close == FindQuote(text, open + 1)
    IN  IF open = 0 THEN <<>>
        ELSE <<SubSeq(text, open + 1, close - 1)>> \o LoadItems(text, close + 1)

\* Line 228: json.loads(r["all_prices"]) if r["all_prices"] else []
json_loads(text) ==
    IF text = <<>> THEN PyList(<<>>)
    ELSE IF text = <<"n", "u", "l", "l">> THEN PyNone
    ELSE PyList(LoadItems(text, 1))

\* Lines 182-190: the row an INSERT binds for deal d (title is normalized).
RowOf(d, created_at) ==
    [restaurant     |-> d.restaurant,
     market         |-> d.market,
     title          |-> normalize(d.title),
     starting_price |-> d.starting_price,
     all_prices     |-> json_dumps(d.all_prices),
     source_url     |-> d.source_url,
     created_at     |-> created_at]

\* UNIQUE(restaurant, market, title, source_url) of line 159: SQLite holds
\* a NULL distinct from every value, another NULL included.
SameUnique(r, row) ==
    /\ r.restaurant = row.restaurant
    /\ r.market = row.market
    /\ r.title = row.title
    /\ r.source_url # None /\ row.source_url # None
    /\ r.source_url = row.source_url

Conflicts(db, row) == \E k \in 1..Len(db) : SameUnique(db[k], row)

\* INSERT OR REPLACE in the statement of lines 178-190: the row in conflict
\* is deleted and the new one stored under a fresh id.
InsertOrReplace(db, row) ==
    Append(SelectSeq(db, LAMBDA r : ~SameUnique(r, row)), [id |-> Len(db) + 1] @@ row)

\* INSERT OR IGNORE (lines 178-190) of row into the table db; the id is
\* that of INTEGER PRIMARY KEY AUTOINCREMENT in a table no row leaves.
InsertOrIgnore(db, row) ==
    IF Conflicts(db, row) THEN db
    ELSE Append(db, [id |-> Len(db) + 1] @@ row)

\* cur.rowcount after the INSERT OR IGNORE.
RowCount(db, row) == IF Conflicts(db, row) THEN 0 ELSE 1

\* A connection is closed with its transaction open (the function raised
\* before conn.commit()): sqlite3 rolls the transaction back.
CloseUncommitted(committed, uncommitted) == committed

(***************************************************************************)
(* fetch_deals, best_deal_api                                              *)
(***************************************************************************)
\* Lines 204-246: the rows of the filter, newest id first, at most `limit`,
\* each with its estimated_savings and value_score.  A filter is None when
\* the parameter is absent.  (The derived id of line 240 is left out.)
fetch_deals(db, market, restaurant, limit) ==
    LET wanted(r) ==
            /\ market # None => r.market = Get(market)
            /\ restaurant # None => Lower(r.restaurant) = Lower(Get(restaurant))
        rows == SelectSeq([k \in 1..Len(db) |-> db[Len(db) + 1 - k]], wanted)
        top == SubSeq(rows, 1, IF Len(rows) < limit THEN Len(rows) ELSE limit)
        deal(r) ==
            LET all_prices == json_loads(r.all_prices)
                savings == estimate_savings_from_prices(
                               r.starting_price,
                               IF all_prices.type = "NoneType" THEN None ELSE all_prices.items)
            IN  [restaurant        |-> r.restaurant,
                 market            |-> r.market,
                 title             |-> r.title,
                 starting_price    |-> r.starting_price,
                 all_prices        |-> all_prices,
                 source_url        |-> r.source_url,
                 created_at        |-> r.created_at,
                 estimated_savings |-> savings,
                 value_score       |-> compute_value_score(r.starting_price, savings)]
    IN  [k \in 1..Len(top) |-> deal(top[k])]

FetchLimit == 200

\* d.get("estimated_savings") or 0
SavingsOrZero(d) == IF d.estimated_savings = None THEN 0 ELSE Get(d.estimated_savings)

\* The sort key of line 301.
SortKey(d) == <<d.value_score, -SavingsOrZero(d)>>

\* Tuple order: k1 < k2.
KeyLess(k1, k2) == k1[1] < k2[1] \/ (k1[1] = k2[1] /\ k1[2] < k2[2])

\* sorted(deals, key=..., reverse=True)[0]: a deal of the greatest key; of
\* several the first in deals, since the reversed sort is stable.
FirstOfSorted(deals) ==
    LET k == CHOOSE k \in 1..Len(deals) :
                 /\ \A h \in 1..Len(deals) : ~KeyLess(SortKey(deals[k]), SortKey(deals[h]))
                 /\ \A h \in 1..(k - 1) : KeyLess(SortKey(deals[h]), SortKey(deals[k]))
    IN  deals[k]

\* Lines 296-302: "best" of the response, None when there are no deals.
best_deal_api(db, market, restaurant) ==
    LET deals == fetch_deals(db, market, restaurant, FetchLimit)
    IN  IF deals = <<>> THEN None ELSE Some(FirstOfSorted(deals))

(***************************************************************************)
(* Phrases the title normalizer is run on: up to MaxPieces pieces of page  *)
(* copy, joined by single spaces.                                          *)
(***************************************************************************)
MaxPieces == 3

Pieces == {
    <<"O", "r", "d", "e", "r", " ", "N", "o", "w">>,
    <<"C", "o", "v", "e", "r", " ", "A", "l", "l", " ", "C", "r", "a", "v", "i", "n", "g", "s">>,
    <<"C", "o", "v", "e", "r", " ", "A", "l", "l", " ", "C", "o", "v", "e", "r", " ", "A", "l", "l", " ", "C", "r", "a", "v", "i", "n", "g", "s", " ", "C", "r", "a", "v", "i", "n", "g", "s">>,
    <<"H", "u", "n", "g", "r", "y", "?">>,
    <<"B", "i", "g", "g", "i", "e", " ", "B", "i", "t", "e", "s", " ", "$", "4", " ", "o", "r", " ", "B", "i", "g", "g", "i", "e", " ", "B", "a", "g", " ", "$", "6">>,
    <<"B", "i", "g", "g", "i", "e", " ", "B", "u", "n", "d", "l", "e", " ", "f", "o", "r", " ", "$", "8">>,
    <<"-", " ", "E", "a", "c", "h", " ", "s", "o", "l", "d", " ", "s", "e", "p", "a", "r", "a", "t", "e", "l", "y", ":">>,
    <<"w", "i", "t", "h", " ", "v", "a", "l", "u", "e", " ", "p", "r", "i", "c", "e", " ", "p", "o", "i", "n", "t", "s">>,
    <<"s", "a", "v", "e", " ", " ", "b", "i", "g", "\t", "t", "o", "d", "a", "y">>,
    <<"D", "a", "v", "e", "'", "s", " ", "S", "i", "n", "g", "l", "e", " ", "w", "i", "t", "h", " ", "a", " ", "E", "a", "c", "h", "w", "a", "y", " ", "b", "e", "t", " ", "a", "n", "d", " ", "a", " ", "s", "m", "a", "l", "l", " ", "F", "r", "o", "s", "t", "y", " ", "f", "o", "r", " ", "e", "v", "e", "r", "y", "o", "n", "e">> }

RECURSIVE JoinPieces(_)
JoinPieces(ps) ==
    IF ps = <<>> THEN <<>>
    ELSE IF Len(ps) = 1 THEN ps[1]
    ELSE ps[1] \o <<" ">> \o JoinPieces(Tail(ps))

Phrases == { JoinPieces(ps) : ps \in UNION { [1..n -> Pieces] : n \in 1..MaxPieces } }

(***************************************************************************)
(* What the model is run on                                                *)
(***************************************************************************)
\* Threads of the server's pool, each serving one request at a time.
NumCallers == 2

Callers == 1..NumCallers

\* Calls of upsert_deals and requests of POST /refresh/wendys in a run.
MaxCalls == 2

\* Deals handed to upsert_deals directly in a run, over all its calls.
MaxDeals == 3

\* No connection holds the write lock / a connection that was never closed
\* holds it.
Free == 0

Leaked == -1

BagDeal ==
    [restaurant |-> Wendys, market |-> Cleveland, title |-> <<"B", "i", "g", "g", "i", "e", " ", "B", "a", "g">>,
     starting_price |-> Some(400), all_prices |-> PyList(<< <<"$", "4">>, <<"$", "8">> >>),
     source_url |-> Some(MealDealsUrl)]

\* The same deal as a later run sees it: other prices, a title that differs
\* in whitespace only.
BagDealLater ==
    [restaurant |-> Wendys, market |-> Cleveland, title |-> <<" ", "B", "i", "g", "g", "i", "e", " ", " ", "B", "a", "g", " ">>,
     starting_price |-> Some(500), all_prices |-> PyList(<< <<"$", "5">> >>),
     source_url |-> Some(MealDealsUrl)]

\* A deal with no "source_url" key: d.get("source_url") is None.
BagDealNoUrl == [BagDeal EXCEPT !.source_url = None]

FrostyDeal ==
    [restaurant |-> Wendys, market |-> Cleveland, title |-> <<"F", "r", "o", "s", "t", "y", " ", "w", "i", "t", "h", " ", "a", "n", "y", " ", "c", "o", "m", "b", "o">>,
     starting_price |-> Some(400), all_prices |-> PyList(<< <<"$", "4">>, <<"$", "1", "0">> >>),
     source_url |-> Some(MealDealsUrl)]

\* A title that is empty once normalized.
BlankDeal == [BagDeal EXCEPT !.title = <<" ", " ">>]

\* A deal whose all_prices json.dumps cannot serialise.
BrokenDeal ==
    [restaurant |-> Wendys, market |-> Cleveland, title |-> <<"F", "r", "i", "e", "s">>,
     starting_price |-> Some(200), all_prices |-> PySet(<< <<"$", "2">> >>),
     source_url |-> Some(MealDealsUrl)]

DealPool == {BagDeal, BagDealLater, BagDealNoUrl, FrostyDeal, BlankDeal, BrokenDeal}

Batches(n) == UNION { [1..k -> DealPool] : k \in 0..n }

\* What the page fetch of a refresh ends with: no response, an error status
\* with its page, or the deals page.
DealsPage == <<"O", "r", "d", "e", "r", " ", "N", "o", "w", " ", "G", "e", "t", " ", "t", "h", "e", " ", "B", "i", "g", "g", "i", "e", " ", "B", "a", "g", " ", "f", "o", "r", " ", "$", "4", ".", " ", "P", "l", "u", "s", ",", " ", "s", "a", "v", "e", " ", "b", "i", "g", " ", "w", "i", "t", "h", " ", "v", "a", "l", "u", "e", " ", "p", "r", "i", "c", "e", " ", "p", "o", "i", "n", "t", "s", " ", "o", "n", " ", "c", "o", "m", "b", "o", "s", ".">>

DealsPageLater == <<"O", "r", "d", "e", "r", " ", "N", "o", "w", " ", "2", " ", "f", "o", "r", " ", "$", "5", " ", "B", "i", "g", "g", "i", "e", " ", "B", "a", "g", " ", "t", "o", "d", "a", "y", ".", " ", "2", " ", "f", "o", "r", " ", "$", "5", " ", "B", "i", "g", "g", "i", "e", " ", "B", "a", "g", " ", "t", "o", "d", "a", "y", " ", "-", " ", "E", "a", "c", "h", " ", "s", "o", "l", "d", " ", "s", "e", "p", "a", "r", "a", "t", "e", "l", "y", ".", " ", "F", "r", "o", "s", "t", "y", " ", "i", "s", " ", "$", "1", " ", "o", "r", " ", "$", "2", " ", "w", "i", "t", "h", " ", "a", "n", "y", " ", "c", "o", "m", "b", "o", ".">>

ErrorPage == <<"S", "e", "r", "v", "i", "c", "e", " ", "u", "n", "a", "v", "a", "i", "l", "a", "b", "l", "e", ".", " ", "T", "r", "y", " ", "t", "h", "e", " ", "$", "5", " ", "B", "i", "g", "g", "i", "e", " ", "B", "a", "g", " ", "a", "g", "a", "i", "n", " ", "l", "a", "t", "e", "r", ".">>

Responses ==
    { [status |-> 0, text |-> <<>>],
      [status |-> 500, text |-> ErrorPage],
      [status |-> 200, text |-> DealsPage],
      [status |-> 200, text |-> DealsPageLater] }

\* The response r as the n-th call of the run got it.
Answer(n, r) == [request |-> n, status |-> r.status, text |-> r.text]

NoResponse == [request |-> 0, status |-> -1, text |-> <<>>]

NoResult == [status |-> "none", added |-> 0]

Markets == {None, Some(Cleveland)}

Restaurants == {None, Some(<<"w", "e", "n", "d", "y", "'", "s">>)}

\* Prices and savings, in cents, compute_value_score is run on.
MaxPriceCents == 520

MaxSavingsCents == 310

VARIABLES
    phrase,     \* the text clean_wendys_title is called with
    title,      \* its result, None before the call
    title2,     \* the result of cleaning the result again, None before that
    price,      \* starting_price of a compute_value_score call
    savings,    \* its estimated_savings
    score,      \* its result, None before the call
    store,      \* the committed rows of the deals table, by id
    schema,     \* the deals table exists
    lock,       \* the connection that holds the database's write lock
    leaked,     \* the uncommitted table of the connection that was never closed
    clock,      \* the wall clock
    calls,      \* calls and requests so far
    submitted,  \* deals handed to upsert_deals directly so far
    failed,     \* created_at of the upsert_deals calls that raised
    pc,         \* per caller: "idle", or "loop" inside upsert_deals
    deals,      \* per caller: the argument of its upsert_deals call
    idx,        \* per caller: the deal the loop of line 173 is at
    added,      \* per caller: the local of that name
    created_at, \* per caller: the local of that name
    view,       \* per caller: the table as its connection's transaction holds it
    response,   \* per caller: what the page fetch of its refresh ended with
    result,     \* per caller: how its last call ended
    best        \* the last query and answer of GET /best

titleVars == <<phrase, title, title2>>

scoreVars == <<price, savings, score>>

callVars == <<pc, deals, idx, added, created_at, view, response, result>>

dbVars == <<store, schema, lock, leaked, clock, calls, submitted, failed, best>>

vars == <<titleVars, scoreVars, dbVars, callVars>>

TitleIdle == phrase = <<>> /\ title = None /\ title2 = None

ScoreIdle == price = None /\ savings = None /\ score = None

\* No database file yet, every thread idle.
DbInit ==
    /\ store = <<>>
    /\ schema = FALSE
    /\ lock = Free
    /\ leaked = <<>>
    /\ clock = 1
    /\ calls = 0
    /\ submitted = 0
    /\ failed = {}
    /\ best = None
    /\ pc = [c \in Callers |-> "idle"]
    /\ deals = [c \in Callers |-> <<>>]
    /\ idx = [c \in Callers |-> 0]
    /\ added = [c \in Callers |-> 0]
    /\ created_at = [c \in Callers |-> 0]
    /\ view = [c \in Callers |-> <<>>]
    /\ response = [c \in Callers |-> NoResponse]
    /\ result = [c \in Callers |-> NoResult]

(***************************************************************************)
(* clean_wendys_title, run on a phrase and then on its own result          *)
(***************************************************************************)
TitleInit ==
    /\ phrase \in Phrases
    /\ title = None
    /\ title2 = None
    /\ ScoreIdle
    /\ DbInit

CleanTitle ==
    /\ title = None
    /\ title' = Some(clean_wendys_title(phrase))
    /\ UNCHANGED <<phrase, title2, scoreVars, dbVars, callVars>>

CleanAgain ==
    /\ title # None
    /\ title2 = None
    /\ title2' = Some(clean_wendys_title(Get(title)))
    /\ UNCHANGED <<phrase, title, scoreVars, dbVars, callVars>>

TitleNext == CleanTitle \/ CleanAgain

SpecTitle == TitleInit /\ [][TitleNext]_vars

(***************************************************************************)
(* compute_value_score, run on a price and a savings signal that rise a    *)
(* cent at a time                                                          *)
(***************************************************************************)
ScoreInit ==
    /\ price \in {None, Some(0)}
    /\ savings \in {None, Some(0)}
    /\ score = None
    /\ TitleIdle
    /\ DbInit

ScoreDeal ==
    /\ score = None
    /\ score' = Some(compute_value_score(price, savings))
    /\ UNCHANGED <<price, savings, titleVars, dbVars, callVars>>

RaisePrice ==
    /\ score # None
    /\ price # None
    /\ Get(price) < MaxPriceCents
    /\ price' = Some(Get(price) + 1)
    /\ score' = Some(compute_value_score(price', savings))
    /\ UNCHANGED <<savings, titleVars, dbVars, callVars>>

RaiseSavings ==
    /\ score # None
    /\ savings # None
    /\ Get(savings) < MaxSavingsCents
    /\ savings' = Some(Get(savings) + 1)
    /\ score' = Some(compute_value_score(price, savings'))
    /\ UNCHANGED <<price, titleVars, dbVars, callVars>>

ScoreNext == ScoreDeal \/ RaisePrice \/ RaiseSavings

SpecScore == ScoreInit /\ [][ScoreNext]_vars

(***************************************************************************)
(* upsert_deals, POST /refresh/wendys, GET /best                           *)
(***************************************************************************)
\* The table as caller c's connection reads it: its own transaction's once
\* it has written, the committed one before.
Visible(c) == IF lock = c THEN view[c] ELSE store

\* Lines 167-171: upsert_deals(ds) up to its loop.
Begin(c, ds) ==
    /\ schema' = TRUE
    /\ created_at' = [created_at EXCEPT ![c] = clock]
    /\ clock' = clock + 1
    /\ added' = [added EXCEPT ![c] = 0]
    /\ deals' = [deals EXCEPT ![c] = ds]
    /\ idx' = [idx EXCEPT ![c] = 1]
    /\ pc' = [pc EXCEPT ![c] = "loop"]
    /\ calls' = calls + 1

\* upsert_deals with its commit and close in a finally block: a call that
\* raises commits what it has inserted.
RaiseAfterCommit(c, error) ==
    /\ pc' = [pc EXCEPT ![c] = "idle"]
    /\ result' = [result EXCEPT ![c] = [status |-> error, added |-> added[c]]]
    /\ failed' = failed \cup {created_at[c]}
    /\ store' = Visible(c)
    /\ lock' = IF lock = c THEN Free ELSE lock
    /\ UNCHANGED <<leaked, schema, clock, calls, submitted, best, deals, idx, added,
                   created_at, view, response, titleVars, scoreVars>>

\* upsert_deals raises with error: the connection is neither committed nor
\* closed, and keeps the write lock if it has it.
Raise(c, error) ==
    /\ pc' = [pc EXCEPT ![c] = "idle"]
    /\ result' = [result EXCEPT ![c] = [status |-> error, added |-> added[c]]]
    /\ failed' = failed \cup {created_at[c]}
    /\ lock' = IF lock = c THEN Leaked ELSE lock
    /\ leaked' = IF lock = c THEN view[c] ELSE leaked
    /\ UNCHANGED <<store, schema, clock, calls, submitted, best, deals, idx, added,
                   created_at, view, response, titleVars, scoreVars>>

\* A call of upsert_deals(ds) from outside the refresh route.
CallUpsert(c, ds) ==
    /\ pc[c] = "idle"
    /\ calls < MaxCalls
    /\ submitted + Len(ds) <= MaxDeals
    /\ Begin(c, ds)
    /\ submitted' = submitted + Len(ds)
    /\ response' = [response EXCEPT ![c] = NoResponse]
    /\ UNCHANGED <<store, lock, leaked, failed, best, view, result, titleVars, scoreVars>>

\* Lines 319-321 with a fetch that raises: the request ends there.
RefreshFetchFails(c, r) ==
    /\ pc[c] = "idle"
    /\ calls < MaxCalls
    /\ FetchRaises(r)
    /\ calls' = calls + 1
    /\ response' = [response EXCEPT ![c] = Answer(calls + 1, r)]
    /\ result' = [result EXCEPT ![c] =
                     [status |-> IF r.status = 0 THEN "ConnectionError" ELSE "HTTPError",
                      added |-> 0]]
    /\ UNCHANGED <<store, schema, lock, leaked, clock, submitted, failed, best, pc, deals,
                   idx, added, created_at, view, titleVars, scoreVars>>

\* Lines 319-321 with a page: its deals go to upsert_deals.
RefreshScrapes(c, r) ==
    /\ pc[c] = "idle"
    /\ calls < MaxCalls
    /\ ~FetchRaises(r)
    /\ Begin(c, refresh_wendys_scrape(r.text, Cleveland))
    /\ response' = [response EXCEPT ![c] = Answer(calls + 1, r)]
    /\ UNCHANGED <<store, lock, leaked, submitted, failed, best, view, result,
                   titleVars, scoreVars>>

\* The deal the loop of caller c is at.
Current(c) == deals[c][idx[c]]

InLoop(c) == pc[c] = "loop" /\ idx[c] <= Len(deals[c])

\* Lines 174-176: a deal with no title is passed over.
SkipDeal(c) ==
    /\ InLoop(c)
    /\ normalize(Current(c).title) = <<>>
    /\ idx' = [idx EXCEPT ![c] = idx[c] + 1]
    /\ UNCHANGED <<dbVars, pc, deals, added, created_at, view, response, result,
                   titleVars, scoreVars>>

\* Line 187: json.dumps raises.
DumpsRaises(c) ==
    /\ InLoop(c)
    /\ normalize(Current(c).title) # <<>>
    /\ NotSerialisable(Current(c).all_prices)
    /\ Raise(c, "TypeError")

\* Lines 178-192: the INSERT OR IGNORE of one deal, which takes the write
\* lock, and the count of the row.
InsertDeal(c) ==
    /\ InLoop(c)
    /\ normalize(Current(c).title) # <<>>
    /\ ~NotSerialisable(Current(c).all_prices)
    /\ lock \in {Free, c}
    /\ LET row == RowOf(Current(c), created_at[c])
       IN  /\ view' = [view EXCEPT ![c] = InsertOrIgnore(Visible(c), row)]
           /\ added' = [added EXCEPT ![c] = added[c] + RowCount(Visible(c), row)]
    /\ lock' = c
    /\ idx' = [idx EXCEPT ![c] = idx[c] + 1]
    /\ UNCHANGED <<store, schema, leaked, clock, calls, submitted, failed, best, pc, deals,
                   created_at, response, result, titleVars, scoreVars>>

\* Line 178 with the write lock held by another connection for longer than
\* the timeout of sqlite3.connect: "database is locked".
BusyTimeout(c) ==
    /\ InLoop(c)
    /\ normalize(Current(c).title) # <<>>
    /\ ~NotSerialisable(Current(c).all_prices)
    /\ lock \notin {Free, c}
    /\ Raise(c, "OperationalError")

\* Lines 194-196: commit, close, return added.
Commit(c) ==
    /\ pc[c] = "loop"
    /\ idx[c] > Len(deals[c])
    /\ store' = Visible(c)
    /\ lock' = IF lock = c THEN Free ELSE lock
    /\ pc' = [pc EXCEPT ![c] = "idle"]
    /\ result' = [result EXCEPT ![c] = [status |-> "ok", added |-> added[c]]]
    /\ UNCHANGED <<schema, leaked, clock, calls, submitted, failed, best, deals, idx, added,
                   created_at, view, response, titleVars, scoreVars>>

\* The connection a raising call left behind is collected and closed.
Finalize ==
    /\ lock = Leaked
    /\ store' = CloseUncommitted(store, leaked)
    /\ lock' = Free
    /\ leaked' = <<>>
    /\ UNCHANGED <<schema, clock, calls, submitted, failed, best, callVars,
                   titleVars, scoreVars>>

\* GET /best
BestDeal(market, restaurant) ==
    /\ best' = Some([market |-> market, restaurant |-> restaurant,
                     best |-> best_deal_api(store, market, restaurant)])
    /\ UNCHANGED <<store, schema, lock, leaked, clock, calls, submitted, failed,
                   callVars, titleVars, scoreVars>>

Init == TitleIdle /\ ScoreIdle /\ DbInit

Next ==
    \/ \E c \in Callers, ds \in Batches(MaxDeals) : CallUpsert(c, ds)
    \/ \E c \in Callers, r \in Responses : RefreshFetchFails(c, r)
    \/ \E c \in Callers, r \in Responses : RefreshScrapes(c, r)
    \/ \E c \in Callers : SkipDeal(c)
    \/ \E c \in Callers : DumpsRaises(c)
    \/ \E c \in Callers : InsertDeal(c)
    \/ \E c \in Callers : BusyTimeout(c)
    \/ \E c \in Callers : Commit(c)
    \/ Finalize

Spec == Init /\ [][Next]_vars

\* One thread serves the calls, one after the other.
SeqNext ==
    \/ \E ds \in Batches(MaxDeals) : CallUpsert(1, ds)
    \/ \E r \in Responses : RefreshFetchFails(1, r)
    \/ \E r \in Responses : RefreshScrapes(1, r)
    \/ SkipDeal(1)
    \/ DumpsRaises(1)
    \/ InsertDeal(1)
    \/ BusyTimeout(1)
    \/ Commit(1)
    \/ Finalize

SpecSeq == Init /\ [][SeqNext]_vars

\* One thread writes, and GET /best reads.
BestNext ==
    \/ SeqNext
    \/ \E m \in Markets, r \in Restaurants : BestDeal(m, r)

SpecBest == Init /\ [][BestNext]_vars


(***************************************************************************)
(* The properties the specification states                                 *)
(***************************************************************************)
\* The uniqueness key as the specification reads it: a deal's restaurant,
\* market, normalized title and source_url, a missing source_url being a
\* value like any other.
DealKey(d) == <<d.restaurant, d.market, normalize(d.title), d.source_url>>

RowKey(r) == <<r.restaurant, r.market, r.title, r.source_url>>

Stored(db, d) == \E k \in 1..Len(db) : RowKey(db[k]) = DealKey(d)

\* The rows of the table db that the call stamped t wrote.
RowsOfCall(db, t) == {k \in 1..Len(db) : db[k].created_at = t}

\* C1: a deal whose key is already in the table adds nothing to the count
\* upsert_deals returns, and the count returned is the number of rows the
\* call has added to the stored table.
UpsertReturnsGrowth ==
    [][\A c \in Callers :
          /\ (pc[c] = "loop" /\ idx'[c] = idx[c] + 1 /\ Stored(Visible(c), Current(c)))
                => added'[c] = added[c]
          /\ (pc[c] = "loop" /\ pc'[c] = "idle" /\ result'[c].status = "ok")
                => result'[c].added = Len(store') - Len(store)]_vars

\* C2: no two stored rows have the same restaurant, market, title and
\* source_url, a missing source_url included.
UniqueDeals ==
    \A i, j \in 1..Len(store) : i # j => RowKey(store[i]) # RowKey(store[j])

\* C3 as stated: when a call of upsert_deals raises partway through its
\* batch, the rows it had inserted before stay in the stored table.
PriorInsertsSurviveFailure ==
    \A c \in Callers :
        (pc[c] = "idle" /\ result[c].status \in {"TypeError", "OperationalError"})
            => Cardinality(RowsOfCall(store, created_at[c])) >= result[c].added

\* C3: no row of a call of upsert_deals that raised is ever in the stored
\* table: the inserts of a call are one transaction, committed after the
\* last deal only.
FailedCallPersistsNothing ==
    \A k \in 1..Len(store) : store[k].created_at \notin failed

\* A call raised after it had inserted a row, and its connection is closed.
FailedAfterInsert ==
    \E c \in Callers :
        /\ pc[c] = "idle"
        /\ result[c].status = "TypeError"
        /\ result[c].added >= 1
        /\ lock = Free

\* C4: two concurrent calls of upsert_deals with the same single deal end
\* with one row for it, one call counting 1 and the other 0, and no error.
ConcurrentUpsertsOneWins ==
    \A c1, c2 \in Callers, d \in DealPool :
        ( /\ c1 # c2
          /\ calls = 2
          /\ deals[c1] = <<d>> /\ deals[c2] = <<d>>
          /\ pc[c1] = "idle" /\ pc[c2] = "idle"
          /\ result[c1].status # "none" /\ result[c2].status # "none"
          /\ response[c1] = NoResponse /\ response[c2] = NoResponse
          /\ normalize(d.title) # <<>>
          /\ ~NotSerialisable(d.all_prices) )
        => /\ result[c1].status = "ok" /\ result[c2].status = "ok"
           /\ result[c1].added + result[c2].added = 1
           /\ Cardinality({k \in 1..Len(store) : RowKey(store[k]) = DealKey(d)}) = 1

\* C5: the deal GET /best answers with has the highest value_score of the
\* deals of its filter and, among those of that score, the highest
\* estimated_savings.
BestPrefersSavings ==
    [][best' # best =>
          LET q == Get(best')
              ds == fetch_deals(store, q.market, q.restaurant, FetchLimit)
          IN  q.best # None =>
                 \A k \in 1..Len(ds) :
                     /\ ds[k].value_score <= Get(q.best).value_score
                     /\ ds[k].value_score = Get(q.best).value_score
                           => SavingsOrZero(ds[k]) <= SavingsOrZero(Get(q.best))]_vars

\* C6: a stored row is never changed and never removed.
StoredRowsNeverChange ==
    [][\A k \in 1..Len(store) : Len(store') >= k /\ store'[k] = store[k]]_vars

\* A later call that ended well held a deal with the key of a stored row
\* and other prices.
LaterRunMetStoredDeal ==
    \E c \in Callers, k \in 1..Len(store) :
        /\ pc[c] = "idle"
        /\ result[c].status = "ok"
        /\ created_at[c] > store[k].created_at
        /\ \E i \in 1..Len(deals[c]) :
              /\ SameUnique(store[k], RowOf(deals[c][i], created_at[c]))
              /\ RowOf(deals[c][i], created_at[c]).all_prices # store[k].all_prices

\* C7: a refresh whose page fetch raises ends with that error, leaves the
\* stored table as it is and hands nothing to upsert_deals.
FetchFailureStoresNothing ==
    [][\A c \in Callers :
          ( /\ response'[c] # response[c]
            /\ response'[c].status = 0 \/ response'[c].status \in 400..599 )
          => /\ store' = store
             /\ view' = view
             /\ lock' = lock
             /\ pc'[c] = "idle"
             /\ result'[c].status \in {"ConnectionError", "HTTPError"}]_vars

\* A refresh ended on an HTTP error status with rows in the table.
RefreshGotErrorStatus ==
    \E c \in Callers :
        /\ response[c].status = 500
        /\ result[c].status = "HTTPError"
        /\ pc[c] = "idle"
        /\ store # <<>>

\* C8: with the savings held, a larger starting_price never gives a larger
\* score; with the price held, a larger estimated_savings never gives a
\* smaller one.  Prices and savings are amounts of zero cents or more, as
\* pick_price and estimate_savings_from_prices give them; a step of one cent
\* at a time covers every pair of amounts.
ScoreMonotone ==
    [][(score # None /\ score' # None) =>
          /\ (price' # price /\ savings' = savings) => Get(score') <= Get(score)
          /\ (savings' # savings /\ price' = price) => Get(score') >= Get(score)]_vars

\* A score below the cap that price and savings both shape.
ScoreOfPriceAndSavings ==
    /\ price = Some(500)
    /\ savings = Some(100)
    /\ score = Some(600)

\* The input does not take the bundle special-case of line 70.
NotBundle == ~IsBiggieLine(Headline(phrase))

\* C9 as stated: cleaning a cleaned title again gives the same title, for
\* every input outside the bundle special-case.
CleanIsIdempotent ==
    (title2 # None /\ NotBundle) => title2 = title

\* The title t holds nothing the first steps of clean_wendys_title rewrite:
\* no leading "Order Now", no "Cover All Cravings", no question mark with 18
\* or more characters after it.
Settled(t) ==
    /\ ~MatchAtI(OrderNow, t, 1)
    /\ FindI(CoverAllCravings, t) = 0
    /\ FindQuestion(t) = 0 \/ Len(AfterQuestion(t)) < MinAfterQuestion

\* The first pass cut its title at 90 characters.
WasCut == Len(StripChars(BeforeMarker(Headline(phrase)), TitlePunct)) > MaxTitleLen

\* C9: cleaning a cleaned title again gives the same title, for every input
\* outside the bundle special-case whose title is settled and was not cut
\* at 90 characters.
CleanIsIdempotentOnSettled ==
    (title2 # None /\ NotBundle /\ Settled(Get(title)) /\ ~WasCut) => title2 = title

\* A first pass that dropped text of the phrase, and a second that kept the
\* title.
SecondPassKeptTitle ==
    /\ title2 # None
    /\ NotBundle
    /\ Settled(Get(title))
    /\ ~WasCut
    /\ Get(title) # normalize(phrase)
    /\ title2 = title

HasAllThree(t) == Contains(Dollar4, t) /\ Contains(Dollar6, t) /\ Contains(Dollar8, t)

\* C10 as stated: a phrase that holds "$4", "$6" and "$8" is given the
\* fixed bundle title.
ThreePricesGiveBiggieTitle ==
    (title # None /\ HasAllThree(phrase)) => Get(title) = BiggieTitle

\* The question-mark step of lines 64-67 keeps the three prices of the
\* phrase: there is no question mark, or the three prices come after the
\* first one, or fewer than 18 characters follow it once "Order Now" and
\* "Cover All Cravings" are dropped.
QuestionKeepsPrices ==
    \/ FindQuestion(phrase) = 0
    \/ HasAllThree(From(phrase, FindQuestion(phrase) + 1))
    \/ Len(AfterQuestion(StripTagline(StripOrderNow(normalize(phrase))))) < MinAfterQuestion

\* C10: a phrase that holds "$4", "$6" and "$8" is given the fixed bundle
\* title when the question-mark step keeps the three prices.
ThreePricesKeptGiveBiggieTitle ==
    (title # None /\ HasAllThree(phrase) /\ QuestionKeepsPrices)
        => Get(title) = BiggieTitle

\* A phrase with a question mark and the three prices got the fixed title.
BiggieTitleAfterQuestion ==
    /\ title = Some(BiggieTitle)
    /\ FindQuestion(phrase) # 0
    /\ HasAllThree(phrase)
    /\ ~Contains(ValuePricePoints, Lower(phrase))

=============================================================================
